---- MODULE Spec2Model ----
(***************************************************************************)
(* Model of github-actions/add-update-label-weekly/add-label.js: the       *)
(* weekly job that walks the cards of a project column and relabels each   *)
(* issue according to the recency of its assignees' activity.              *)
(*                                                                         *)
(* Two specifications:                                                     *)
(*   SpecClassify  the pure function isTimelineOutdated applied to         *)
(*                 bounded inputs;                                         *)
(*   Spec          one run of main against a repository and an API whose   *)
(*                 calls may throw.                                        *)
(***************************************************************************)
EXTENDS Integers, Sequences, FiniteSets, TLC

(***************************************************************************)
(* Program constants (add-label.js lines 7-19, 76)                         *)
(***************************************************************************)
statusUpdatedLabel == "Status: Updated"
toUpdateLabel == "To Update !"
inactiveLabel == "2 weeks inactive"

commentByDays == 7
inactiveUpdatedByDays == 14

\* JS null / undefined (lastAssignedTimestamp = null, a missing updated_at).
Null == -1

(***************************************************************************)
(* Bounds of the model                                                     *)
(***************************************************************************)
\* The instant at which the module is loaded, in days.
Now == 20
\* Longest timeline handed to isTimelineOutdated under SpecClassify.
MaxTimeline == 2
\* Cards / events per page served by the API (per_page in the requests).
PerPage == 1
\* API calls that may throw in one run.
MaxFailures == 2
\* Calls of isTimelineOutdated on the same arguments under
\* SpecClassifyTwice.
MaxCalls == 2

\* new Date(); setDate(getDate() - commentByDays)
sevenDayCutoffTime == Now - commentByDays
\* new Date(); setDate(getDate() - inactiveUpdatedByDays)
fourteenDayCutoffTime == Now - inactiveUpdatedByDays

(***************************************************************************)
(* Input universe                                                          *)
(***************************************************************************)
Users == {"alice", "bob"}
Issues == {42, 43}
StatusLabels == {statusUpdatedLabel, toUpdateLabel, inactiveLabel}

\* Timestamps around both cutoffs: older than 14 days, exactly 14 days,
\* between the cutoffs, exactly 7 days, recent.
TimeSamples ==
  {fourteenDayCutoffTime - 1, fourteenDayCutoffTime,
   sevenDayCutoffTime - 1, sevenDayCutoffTime, Now - 1}

\* Texts of the issue or pull request that cross-references the subject.
Bodies == {"fixes #42", "resolves #43", "see #42"}

Event(kind, actor, assignee, body, created, updated) ==
  [event |-> kind, actor |-> actor, assignee |-> assignee, body |-> body,
   created_at |-> created, updated_at |-> updated]

CrossRefEvents ==
  {Event("cross-referenced", a, "", b, t, Null) :
     a \in Users, b \in Bodies, t \in {fourteenDayCutoffTime - 1, Now - 1}}
\* A comment carries updated_at when it was edited after its creation.
CommentEvents ==
  UNION {{Event("commented", a, "", "", t, u) :
            a \in Users, u \in {Null} \cup {x \in TimeSamples : x > t}} :
         t \in TimeSamples}
AssignedEvents ==
  {Event("assigned", a, b, "", t, Null) : a \in Users, b \in Users, t \in TimeSamples}
OtherEvents ==
  {Event("labeled", a, "", "", Now - 1, Null) : a \in Users}
Events == CrossRefEvents \cup CommentEvents \cup AssignedEvents \cup OtherEvents

AssigneeLists == {<<"alice">>, <<"alice", "bob">>}

SeqsUpTo(S, n) == UNION {[1..k -> S] : k \in 0..n}

(***************************************************************************)
(* Helper functions (lines 257-273)                                        *)
(***************************************************************************)
\* Array.prototype.includes
includes(arr, x) == \E k \in 1..Len(arr) : arr[k] = x

\* utils/find-linked-issue: the number of the issue the text declares
\* fixed, resolved or closed; null when the text declares none.
findLinkedIssue(text) ==
  CASE text = "fixes #42" -> 42
    [] text = "resolves #43" -> 43
    [] OTHER -> Null

\* Mutant: the cutoff instant itself is not recent.
isMomentRecent_Strict(dateString, cutoffTime) == dateString > cutoffTime
isMomentRecent(dateString, cutoffTime) == dateString >= cutoffTime

isLinkedIssue(data, issueNum) == findLinkedIssue(data.body) = issueNum

\* Mutant: any commenter counts.
isCommentByAssignees_AnyActor(data, assignees) == data.actor # ""
isCommentByAssignees(data, assignees) == includes(assignees, data.actor)

\* eventObj.updated_at || eventObj.created_at
eventTimestampOf(eventObj) ==
  IF eventObj.updated_at # Null THEN eventObj.updated_at ELSE eventObj.created_at

(***************************************************************************)
(* isTimelineOutdated (lines 143-196)                                      *)
(***************************************************************************)
\* The loop of lines 147-178, from index i down to the first event.
RECURSIVE ScanTimeline(_, _, _, _, _, _)
ScanTimeline(timeline, i, issueNum, assignees, lastAssignedTimestamp, lastCommentTimestamp) ==
  IF i < 1
  THEN [crossReferenced |-> FALSE,
        lastAssignedTimestamp |-> lastAssignedTimestamp,
        lastCommentTimestamp |-> lastCommentTimestamp]
  ELSE
    LET eventObj == timeline[i]
        eventType == eventObj.event
        eventTimestamp == eventTimestampOf(eventObj)
    IN
      IF /\ eventType = "cross-referenced"
         /\ isLinkedIssue(eventObj, issueNum)
         /\ includes(assignees, eventObj.actor)
      THEN [crossReferenced |-> TRUE,
            lastAssignedTimestamp |-> lastAssignedTimestamp,
            lastCommentTimestamp |-> lastCommentTimestamp]
      ELSE IF eventType = "commented" /\ isCommentByAssignees(eventObj, assignees)
      THEN ScanTimeline(timeline, i - 1, issueNum, assignees, lastAssignedTimestamp,
                        IF lastCommentTimestamp = Null THEN eventTimestamp
                        ELSE lastCommentTimestamp)
      ELSE IF eventType = "assigned" /\ includes(assignees, eventObj.assignee)
      THEN ScanTimeline(timeline, i - 1, issueNum, assignees,
                        IF lastAssignedTimestamp = Null THEN eventTimestamp
                        ELSE lastAssignedTimestamp,
                        lastCommentTimestamp)
      ELSE ScanTimeline(timeline, i - 1, issueNum, assignees,
                        lastAssignedTimestamp, lastCommentTimestamp)

\* Mutant: the 14-day rule is tried before the recent-assignment rule.
Decide_NeedsUpdateFirst(lastAssignedTimestamp, lastCommentTimestamp) ==
  IF lastCommentTimestamp # Null /\ lastCommentTimestamp >= sevenDayCutoffTime
  THEN [result |-> FALSE, labels |-> statusUpdatedLabel]
  ELSE IF \/ lastCommentTimestamp # Null /\ lastCommentTimestamp >= fourteenDayCutoffTime
          \/ lastAssignedTimestamp # Null /\ lastAssignedTimestamp >= fourteenDayCutoffTime
  THEN [result |-> TRUE, labels |-> toUpdateLabel]
  ELSE IF lastAssignedTimestamp # Null /\ lastAssignedTimestamp >= sevenDayCutoffTime
  THEN [result |-> FALSE, labels |-> ""]
  ELSE [result |-> TRUE, labels |-> inactiveLabel]

\* The decision of lines 180-195 on the two timestamps the loop selected.
Decide(lastAssignedTimestamp, lastCommentTimestamp) ==
  IF lastCommentTimestamp # Null /\ isMomentRecent(lastCommentTimestamp, sevenDayCutoffTime)
  THEN [result |-> FALSE, labels |-> statusUpdatedLabel]
  ELSE IF lastAssignedTimestamp # Null /\ isMomentRecent(lastAssignedTimestamp, sevenDayCutoffTime)
  THEN [result |-> FALSE, labels |-> ""]
  ELSE IF \/ lastCommentTimestamp # Null /\ isMomentRecent(lastCommentTimestamp, fourteenDayCutoffTime)
          \/ lastAssignedTimestamp # Null /\ isMomentRecent(lastAssignedTimestamp, fourteenDayCutoffTime)
  THEN [result |-> TRUE, labels |-> toUpdateLabel]
  ELSE [result |-> TRUE, labels |-> inactiveLabel]

\* Mutant: a cross-reference counts only when it is the newest entry.
isTimelineOutdated_LastCrossRefOnly(timeline, issueNum, assignees) ==
  LET scan == ScanTimeline(timeline, Len(timeline), issueNum, assignees, Null, Null)
      n == Len(timeline)
  IN IF /\ n > 0
        /\ timeline[n].event = "cross-referenced"
        /\ isLinkedIssue(timeline[n], issueNum)
        /\ includes(assignees, timeline[n].actor)
     THEN [result |-> TRUE, labels |-> statusUpdatedLabel]
     ELSE Decide(scan.lastAssignedTimestamp, scan.lastCommentTimestamp)

isTimelineOutdated(timeline, issueNum, assignees) ==
  LET scan == ScanTimeline(timeline, Len(timeline), issueNum, assignees, Null, Null)
  IN IF scan.crossReferenced
     THEN [result |-> TRUE, labels |-> statusUpdatedLabel]
     ELSE Decide(scan.lastAssignedTimestamp, scan.lastCommentTimestamp)

NoResponse == [result |-> FALSE, labels |-> "none"]

(***************************************************************************)
(* The project column and the API's pages                                  *)
(***************************************************************************)
\* while (page < 100)
pageLimit == 100

\* A note card has no content_url; an issue card's content_url ends in the
\* issue number.
NoteCard == [note |-> "todo"]
IssueCard(n) == [note |-> "", content_url |-> <<"repos", "hackforla", "website", "issues", n>>]
CardPool == {NoteCard} \cup {IssueCard(n) : n \in Issues}
\* card.content_url.split('/').pop()
issueNumOf(card) == card.content_url[Len(card.content_url)]

\* The columns of the model: up to two cards, and, as a project holds at
\* most one card per issue, no card twice.
Columns ==
  {c \in SeqsUpTo(CardPool, Cardinality(Issues)) :
     \A i, j \in 1..Len(c) : c[i] = c[j] => i = j}
IssuesOf(c) == {issueNumOf(c[k]) : k \in {j \in 1..Len(c) : "content_url" \in DOMAIN c[j]}}

Min(a, b) == IF a < b THEN a ELSE b
\* The page-th page of per_page entries of a list (empty past its end).
PageOf(list, pg) ==
  SubSeq(list, (pg - 1) * PerPage + 1, Min(pg * PerPage, Len(list)))

\* The timelines the API serves to getTimeline under Spec: empty, one
\* event, or an old assignment followed by one event.
FirstAssigned == Event("assigned", "alice", "alice", "", fourteenDayCutoffTime - 1, Null)
FetchedEvents ==
  {Event("cross-referenced", "alice", "", "fixes #42", Now - 1, Null),
   Event("cross-referenced", "alice", "", "resolves #43", Now - 1, Null),
   Event("commented", "alice", "", "", Now - 1, Null),
   Event("commented", "alice", "", "", sevenDayCutoffTime - 1, Null),
   Event("assigned", "alice", "alice", "", Now - 1, Null),
   FirstAssigned}
ServedTimelines ==
  {<<>>} \cup {<<e>> : e \in FetchedEvents} \cup {<<FirstAssigned, e>> : e \in FetchedEvents}
\* The pages of tl before page pg are what getTimeline holds in arra.
ServedSoFar(tl, pg, got) == got = SubSeq(tl, 1, Min((pg - 1) * PerPage, Len(tl)))

\* What getAssignees may return when the request succeeds.
FetchedAssignees == {<<>>, <<"alice">>}

Ops == {"get", "listEventsForTimeline", "removeLabel", "addLabels", "createComment"}

(***************************************************************************)
(* main's dispatch on the response (lines 48-65)                           *)
(***************************************************************************)
Branch(responseObject) ==
  IF responseObject.result = FALSE /\ responseObject.labels = statusUpdatedLabel
  THEN "updated"
  ELSE IF responseObject.result = TRUE /\ responseObject.labels = toUpdateLabel
  THEN "toUpdate"
  ELSE IF responseObject.result = TRUE /\ responseObject.labels = inactiveLabel
  THEN "inactive"
  ELSE IF responseObject.result = FALSE /\ responseObject.labels = ""
  THEN "recentlyAssigned"
  ELSE "none"

\* Mutant: the recently-assigned branch leaves 'Status: Updated' in place.
LabelsToRemove_KeepsUpdated(branch) ==
  CASE branch = "updated" -> <<toUpdateLabel, inactiveLabel>>
    [] branch = "toUpdate" -> <<statusUpdatedLabel, inactiveLabel>>
    [] branch = "inactive" -> <<toUpdateLabel, statusUpdatedLabel>>
    [] branch = "recentlyAssigned" -> <<toUpdateLabel, inactiveLabel>>
    [] OTHER -> <<>>

\* Mutant: the updated branch removes 'To Update !' only.
LabelsToRemove_UpdatedKeepsInactive(branch) ==
  CASE branch = "updated" -> <<toUpdateLabel>>
    [] branch = "toUpdate" -> <<statusUpdatedLabel, inactiveLabel>>
    [] branch = "inactive" -> <<toUpdateLabel, statusUpdatedLabel>>
    [] branch = "recentlyAssigned" -> <<toUpdateLabel, inactiveLabel, statusUpdatedLabel>>
    [] OTHER -> <<>>

\* The labels each branch hands to removeLabels, in call order.
LabelsToRemove(branch) ==
  CASE branch = "updated" -> <<toUpdateLabel, inactiveLabel>>
    [] branch = "toUpdate" -> <<statusUpdatedLabel, inactiveLabel>>
    [] branch = "inactive" -> <<toUpdateLabel, statusUpdatedLabel>>
    [] branch = "recentlyAssigned" -> <<toUpdateLabel, inactiveLabel, statusUpdatedLabel>>
    [] OTHER -> <<>>

BranchAddsLabel(branch) == branch \in {"updated", "toUpdate", "inactive"}
\* Mutant: the updated branch asks for an update as well.
BranchPostsComment_AlsoUpdated(branch) == branch \in {"updated", "toUpdate", "inactive"}
BranchPostsComment(branch) == branch \in {"toUpdate", "inactive"}

(***************************************************************************)
(* State                                                                   *)
(***************************************************************************)
VARIABLES
  \* SpecClassify: the arguments of one call and what it returned
  argTimeline, argIssueNum, argAssignees, returned, calls,
  \* the repository: the column's cards, each issue's status labels and
  \* the comments the run created on it
  column, labels, comments,
  \* main and the functions it awaits
  pc,              \* where the run stands
  page,            \* getIssueNumsFromColumn: page
  results,         \* getIssueNumsFromColumn: results.data
  cardIdx,         \* getIssueNumsFromColumn: position of the for-of loop
  issueNum,        \* main: issueNum
  assignees,       \* main: assignees
  tlPage,          \* getTimeline: page
  arra,            \* getTimeline: arra
  responseObject,  \* main: responseObject
  pending,         \* removeLabels: labels still to go through
  \* history of the run
  failures,        \* API calls that threw
  verdict,         \* what isTimelineOutdated returned for each issue
  outcome,         \* "none", "skipped" or "processed", per issue
  requested,       \* operations requested of the API, per issue
  failedOn,        \* operations that threw, per issue
  labels0,         \* the labels at the start of the run
  removalsRequested, \* the labels removeLabels asked to remove, per issue
  pristine,        \* the first run found at most one status label on each
                   \* issue and no request has thrown since
  requests,        \* SpecColumn: listCards requests made
  emptyServed      \* SpecColumn: a request was answered with no card

classifyVars == <<argTimeline, argIssueNum, argAssignees, returned, calls>>
repoVars == <<column, labels, comments>>
generatorVars == <<page, results, cardIdx>>
mainVars == <<pc, issueNum, assignees, tlPage, arra, responseObject, pending>>
historyVars == <<failures, verdict, outcome, requested, failedOn, labels0>>
auditVars == <<removalsRequested, pristine, requests, emptyServed>>
vars == <<classifyVars, repoVars, generatorVars, mainVars, historyVars, auditVars>>

(***************************************************************************)
(* SpecClassify                                                            *)
(***************************************************************************)
\* The locals and the history before main is called.
NotStarted ==
  /\ comments = [i \in Issues |-> 0]
  /\ page = 1
  /\ results = <<>>
  /\ cardIdx = 1
  /\ issueNum = Null
  /\ assignees = <<>>
  /\ tlPage = 1
  /\ arra = <<>>
  /\ responseObject = NoResponse
  /\ pending = <<>>
  /\ failures = 0
  /\ verdict = [i \in Issues |-> NoResponse]
  /\ outcome = [i \in Issues |-> "none"]
  /\ requested = [i \in Issues |-> {}]
  /\ failedOn = [i \in Issues |-> {}]
  /\ removalsRequested = [i \in Issues |-> {}]
  /\ requests = 0
  /\ emptyServed = FALSE

InitClassify ==
  /\ argTimeline \in SeqsUpTo(Events, MaxTimeline)
  /\ argIssueNum \in {42}
  /\ argAssignees \in AssigneeLists
  /\ returned = NoResponse
  /\ calls = 0
  /\ pc = "idle"
  /\ column = <<>>
  /\ labels = [i \in Issues |-> {}]
  /\ labels0 = labels
  /\ pristine = (\A i \in Issues : Cardinality(labels[i]) <= 1)
  /\ NotStarted

\* Mutant: the scan reverses the array in place and walks it forwards.
Classify_ReversesInPlace ==
  /\ calls = 0
  /\ returned' = isTimelineOutdated(argTimeline, argIssueNum, argAssignees)
  /\ calls' = calls + 1
  /\ argTimeline' = [k \in 1..Len(argTimeline) |-> argTimeline[Len(argTimeline) + 1 - k]]
  /\ UNCHANGED <<argIssueNum, argAssignees>>
  /\ UNCHANGED <<repoVars, generatorVars, mainVars, historyVars>>
  /\ UNCHANGED auditVars

\* The first call: the function reads its arguments and the cutoffs and
\* returns.
Classify ==
  /\ calls = 0
  /\ returned' = isTimelineOutdated(argTimeline, argIssueNum, argAssignees)
  /\ calls' = calls + 1
  /\ UNCHANGED <<argTimeline, argIssueNum, argAssignees>>
  /\ UNCHANGED <<repoVars, generatorVars, mainVars, historyVars>>
  /\ UNCHANGED auditVars

NextClassify == Classify

SpecClassify == InitClassify /\ [][NextClassify]_vars

\* SpecClassifyTwice: the function is called again, later in the same run,
\* on the arguments of the first call.
ClassifyAgain ==
  /\ calls > 0
  /\ calls < MaxCalls
  /\ returned' = isTimelineOutdated(argTimeline, argIssueNum, argAssignees)
  /\ calls' = calls + 1
  /\ UNCHANGED <<argTimeline, argIssueNum, argAssignees>>
  /\ UNCHANGED <<repoVars, generatorVars, mainVars, historyVars>>
  /\ UNCHANGED auditVars

NextClassifyTwice == Classify \/ ClassifyAgain

SpecClassifyTwice == InitClassify /\ [][NextClassifyTwice]_vars

(***************************************************************************)
(* Spec: one run of main (lines 29-67)                                     *)
(***************************************************************************)
Init ==
  /\ argTimeline = <<>>
  /\ argIssueNum = 42
  /\ argAssignees = <<"alice">>
  /\ returned = NoResponse
  /\ calls = 0
  /\ pc = "listCards"
  /\ column \in Columns
  /\ labels \in [Issues -> SUBSET StatusLabels]
  /\ \A i \in Issues \ IssuesOf(column) : labels[i] = {}
  /\ labels0 = labels
  /\ pristine = (\A i \in Issues : Cardinality(labels[i]) <= 1)
  /\ NotStarted

Called(op) == requested' = [requested EXCEPT ![issueNum] = @ \cup {op}]
Threw(op) ==
  /\ failures < MaxFailures
  /\ failures' = failures + 1
  /\ failedOn' = [failedOn EXCEPT ![issueNum] = @ \cup {op}]
  /\ pristine' = FALSE

\* The loop body of main is over for issueNum: the generator resumes after
\* its yield.
NextIteration(how) ==
  /\ outcome' = [outcome EXCEPT ![issueNum] = how]
  /\ pc' = "forCards"
  /\ assignees' = <<>>
  /\ responseObject' = NoResponse

(* getIssueNumsFromColumn (lines 74-99) *)

\* The request for the current page returns: its cards are iterated, or,
\* when it is empty, the generator returns. Past page 99 the loop is over.
ListCards ==
  /\ pc = "listCards"
  /\ IF page < pageLimit
     THEN LET data == PageOf(column, page)
          IN IF Len(data) > 0
             THEN /\ results' = data
                  /\ cardIdx' = 1
                  /\ pc' = "forCards"
                  /\ page' = page
             ELSE /\ pc' = "done"
                  /\ page' = page + 1
                  /\ UNCHANGED <<results, cardIdx>>
     ELSE /\ pc' = "done"
          /\ UNCHANGED <<page, results, cardIdx>>
  /\ UNCHANGED <<classifyVars, repoVars, historyVars>>
  /\ UNCHANGED <<issueNum, assignees, tlPage, arra, responseObject, pending>>
  /\ UNCHANGED auditVars

\* The request throws: catch { continue }, finally { page++ }.
ListCardsThrows ==
  /\ pc = "listCards"
  /\ page < pageLimit
  /\ failures < MaxFailures
  /\ failures' = failures + 1
  /\ page' = page + 1
  /\ UNCHANGED <<classifyVars, repoVars, results, cardIdx, mainVars>>
  /\ UNCHANGED <<verdict, outcome, requested, failedOn, labels0>>
  /\ pristine' = FALSE
  /\ UNCHANGED <<removalsRequested, requests, emptyServed>>

\* A card with a content_url yields its issue number to main's loop.
YieldCard ==
  /\ pc = "forCards"
  /\ cardIdx <= Len(results)
  /\ "content_url" \in DOMAIN results[cardIdx]
  /\ issueNum' = issueNumOf(results[cardIdx])
  /\ cardIdx' = cardIdx + 1
  /\ pc' = "getAssignees"
  /\ UNCHANGED <<classifyVars, repoVars, page, results, historyVars>>
  /\ UNCHANGED <<assignees, tlPage, arra, responseObject, pending>>
  /\ UNCHANGED auditVars

\* A card without content_url is passed over.
SkipCard ==
  /\ pc = "forCards"
  /\ cardIdx <= Len(results)
  /\ "content_url" \notin DOMAIN results[cardIdx]
  /\ cardIdx' = cardIdx + 1
  /\ UNCHANGED <<classifyVars, repoVars, page, results, mainVars, historyVars>>
  /\ UNCHANGED auditVars

\* The page's cards are through: finally { page++ } and the next request.
EndOfPage ==
  /\ pc = "forCards"
  /\ cardIdx > Len(results)
  /\ page' = page + 1
  /\ pc' = "listCards"
  /\ UNCHANGED <<classifyVars, repoVars, results, cardIdx, historyVars>>
  /\ UNCHANGED <<issueNum, assignees, tlPage, arra, responseObject, pending>>
  /\ UNCHANGED auditVars

(* getAssignees (lines 274-288) and main's test of its result (35-40) *)

\* The issue has assignees: main goes on to fetch its timeline.
GetAssignees ==
  /\ pc = "getAssignees"
  /\ \E a \in FetchedAssignees :
       /\ Len(a) # 0
       /\ assignees' = a
  /\ Called("get")
  /\ tlPage' = 1
  /\ arra' = <<>>
  /\ pc' = "getTimeline"
  /\ UNCHANGED <<classifyVars, repoVars, generatorVars>>
  /\ UNCHANGED <<issueNum, responseObject, pending>>
  /\ UNCHANGED <<failures, verdict, outcome, failedOn, labels0>>
  /\ UNCHANGED auditVars

\* Mutant: the skip is logged but the continue is missing.
GetAssigneesNone_NoContinue ==
  /\ pc = "getAssignees"
  /\ Called("get")
  /\ outcome' = [outcome EXCEPT ![issueNum] = "skipped"]
  /\ assignees' = <<>>
  /\ tlPage' = 1
  /\ arra' = <<>>
  /\ pc' = "getTimeline"
  /\ UNCHANGED <<classifyVars, repoVars, generatorVars>>
  /\ UNCHANGED <<issueNum, responseObject, pending>>
  /\ UNCHANGED <<failures, verdict, failedOn, labels0>>
  /\ UNCHANGED auditVars

\* The issue has no assignee: main logs and continues with the next issue.
GetAssigneesNone ==
  /\ pc = "getAssignees"
  /\ <<>> \in FetchedAssignees
  /\ Called("get")
  /\ NextIteration("skipped")
  /\ UNCHANGED <<classifyVars, repoVars, generatorVars>>
  /\ UNCHANGED <<issueNum, tlPage, arra, pending>>
  /\ UNCHANGED <<failures, verdict, failedOn, labels0>>
  /\ UNCHANGED auditVars

\* The request throws: getAssignees returns null, and main's
\* assignees.length throws a TypeError nothing catches.
GetAssigneesThrows ==
  /\ pc = "getAssignees"
  /\ Called("get")
  /\ Threw("get")
  /\ pc' = "aborted"
  /\ UNCHANGED <<classifyVars, repoVars, generatorVars>>
  /\ UNCHANGED <<issueNum, assignees, tlPage, arra, responseObject, pending>>
  /\ UNCHANGED <<verdict, outcome, labels0>>
  /\ UNCHANGED <<removalsRequested, requests, emptyServed>>

(* getTimeline (lines 106-132) *)

\* A page of events is appended to arra; finally { page++ }.
ListEvents ==
  /\ pc = "getTimeline"
  /\ \E tl \in ServedTimelines :
       LET data == PageOf(tl, tlPage)
       IN /\ ServedSoFar(tl, tlPage, arra)
          /\ Len(data) > 0
          /\ arra' = arra \o data
  /\ tlPage' = tlPage + 1
  /\ Called("listEventsForTimeline")
  /\ UNCHANGED <<classifyVars, repoVars, generatorVars>>
  /\ UNCHANGED <<pc, issueNum, assignees, responseObject, pending>>
  /\ UNCHANGED <<failures, verdict, outcome, failedOn, labels0>>
  /\ UNCHANGED auditVars

\* The request throws: the catch block reads the undeclared name `error`,
\* so a ReferenceError leaves getTimeline and main.
ListEventsThrows ==
  /\ pc = "getTimeline"
  /\ Called("listEventsForTimeline")
  /\ Threw("listEventsForTimeline")
  /\ tlPage' = 1
  /\ arra' = <<>>
  /\ assignees' = <<>>
  /\ pc' = "aborted"
  /\ UNCHANGED <<classifyVars, repoVars, generatorVars>>
  /\ UNCHANGED <<issueNum, responseObject, pending>>
  /\ UNCHANGED <<verdict, outcome, labels0>>
  /\ UNCHANGED <<removalsRequested, requests, emptyServed>>

\* An empty page ends getTimeline; main classifies the timeline (line 46)
\* and enters the branch of lines 48-65 that matches the response.
TimelineFetched ==
  /\ pc = "getTimeline"
  /\ \E tl \in ServedTimelines :
       ServedSoFar(tl, tlPage, arra) /\ Len(PageOf(tl, tlPage)) = 0
  /\ LET r == isTimelineOutdated(arra, issueNum, assignees)
     IN /\ verdict' = [verdict EXCEPT ![issueNum] = r]
        /\ pending' = LabelsToRemove(Branch(r))
        /\ IF Branch(r) = "none"
           THEN NextIteration("processed")
           ELSE /\ pc' = "removeLabels"
                /\ responseObject' = r
                /\ UNCHANGED <<outcome, assignees>>
  /\ tlPage' = 1
  /\ arra' = <<>>
  /\ Called("listEventsForTimeline")
  /\ UNCHANGED <<classifyVars, repoVars, generatorVars>>
  /\ UNCHANGED issueNum
  /\ UNCHANGED <<failures, failedOn, labels0>>
  /\ UNCHANGED auditVars

(* removeLabels (lines 204-219) *)

\* What follows the last label of removeLabels in the current branch.
AfterRemoveLabels(rest) ==
  IF rest # <<>>
  THEN pc' = "removeLabels" /\ UNCHANGED <<outcome, assignees, responseObject>>
  ELSE IF BranchAddsLabel(Branch(responseObject))
  THEN pc' = "addLabels" /\ UNCHANGED <<outcome, assignees, responseObject>>
  ELSE NextIteration("processed")

\* The label is off the issue after the request. (A request for a label
\* the issue does not carry is answered 404, which the catch logs: the issue
\* is left as it was, which is what this action does to it.)
RemoveLabel ==
  /\ pc = "removeLabels"
  /\ pending # <<>>
  /\ labels' = [labels EXCEPT ![issueNum] = @ \ {Head(pending)}]
  /\ pending' = Tail(pending)
  /\ Called("removeLabel")
  /\ AfterRemoveLabels(Tail(pending))
  /\ UNCHANGED <<classifyVars, column, comments, generatorVars>>
  /\ UNCHANGED <<issueNum, tlPage, arra>>
  /\ UNCHANGED <<failures, verdict, failedOn, labels0>>
  /\ removalsRequested' = [removalsRequested EXCEPT ![issueNum] = @ \cup {Head(pending)}]
  /\ UNCHANGED <<pristine, requests, emptyServed>>

\* Mutant: the try block encloses the loop, so the first request that
\* throws ends removeLabels.
RemoveLabelThrows_EndsLoop ==
  /\ pc = "removeLabels"
  /\ pending # <<>>
  /\ pending' = <<>>
  /\ Called("removeLabel")
  /\ Threw("removeLabel")
  /\ AfterRemoveLabels(<<>>)
  /\ UNCHANGED <<classifyVars, repoVars, generatorVars>>
  /\ UNCHANGED <<issueNum, tlPage, arra>>
  /\ UNCHANGED <<verdict, labels0>>
  /\ removalsRequested' = [removalsRequested EXCEPT ![issueNum] = @ \cup {Head(pending)}]
  /\ UNCHANGED <<requests, emptyServed>>

\* The request throws: the error is logged and the loop goes on.
RemoveLabelThrows ==
  /\ pc = "removeLabels"
  /\ pending # <<>>
  /\ pending' = Tail(pending)
  /\ Called("removeLabel")
  /\ Threw("removeLabel")
  /\ AfterRemoveLabels(Tail(pending))
  /\ UNCHANGED <<classifyVars, repoVars, generatorVars>>
  /\ UNCHANGED <<issueNum, tlPage, arra>>
  /\ UNCHANGED <<verdict, labels0>>
  /\ removalsRequested' = [removalsRequested EXCEPT ![issueNum] = @ \cup {Head(pending)}]
  /\ UNCHANGED <<requests, emptyServed>>

(* addLabels (lines 225-239) *)

AfterAddLabels ==
  IF BranchPostsComment(Branch(responseObject))
  THEN pc' = "postComment" /\ UNCHANGED <<outcome, assignees, responseObject>>
  ELSE NextIteration("processed")

AddLabels ==
  /\ pc = "addLabels"
  /\ labels' = [labels EXCEPT ![issueNum] = @ \cup {responseObject.labels}]
  /\ Called("addLabels")
  /\ AfterAddLabels
  /\ UNCHANGED <<classifyVars, column, comments, generatorVars>>
  /\ UNCHANGED <<issueNum, tlPage, arra, pending>>
  /\ UNCHANGED <<failures, verdict, failedOn, labels0>>
  /\ UNCHANGED auditVars

AddLabelsThrows ==
  /\ pc = "addLabels"
  /\ Called("addLabels")
  /\ Threw("addLabels")
  /\ AfterAddLabels
  /\ UNCHANGED <<classifyVars, repoVars, generatorVars>>
  /\ UNCHANGED <<issueNum, tlPage, arra, pending>>
  /\ UNCHANGED <<verdict, labels0>>
  /\ UNCHANGED <<removalsRequested, requests, emptyServed>>

(* postComment (lines 240-253) *)

PostComment ==
  /\ pc = "postComment"
  /\ comments' = [comments EXCEPT ![issueNum] = @ + 1]
  /\ Called("createComment")
  /\ NextIteration("processed")
  /\ UNCHANGED <<classifyVars, column, labels, generatorVars>>
  /\ UNCHANGED <<issueNum, tlPage, arra, pending>>
  /\ UNCHANGED <<failures, verdict, failedOn, labels0>>
  /\ UNCHANGED auditVars

PostCommentThrows ==
  /\ pc = "postComment"
  /\ Called("createComment")
  /\ Threw("createComment")
  /\ NextIteration("processed")
  /\ UNCHANGED <<classifyVars, repoVars, generatorVars>>
  /\ UNCHANGED <<issueNum, tlPage, arra, pending>>
  /\ UNCHANGED <<verdict, labels0>>
  /\ UNCHANGED <<removalsRequested, requests, emptyServed>>

(* the next scheduled run *)

\* The workflow calls main again once a run is over or was aborted: the
\* run starts from the labels the last one left, with fresh locals. (The
\* timelines and assignees of the new run are whatever the API then serves.)
Restart ==
  /\ pc \in {"done", "aborted"}
  /\ pc' = "listCards"
  /\ page' = 1
  /\ results' = <<>>
  /\ cardIdx' = 1
  /\ issueNum' = Null
  /\ assignees' = <<>>
  /\ tlPage' = 1
  /\ arra' = <<>>
  /\ responseObject' = NoResponse
  /\ pending' = <<>>
  /\ comments' = [i \in Issues |-> 0]
  /\ failures' = 0
  /\ verdict' = [i \in Issues |-> NoResponse]
  /\ outcome' = [i \in Issues |-> "none"]
  /\ requested' = [i \in Issues |-> {}]
  /\ failedOn' = [i \in Issues |-> {}]
  /\ removalsRequested' = [i \in Issues |-> {}]
  /\ labels0' = labels
  /\ UNCHANGED <<classifyVars, column, labels, pristine, requests, emptyServed>>

Next ==
  \/ ListCards \/ ListCardsThrows \/ YieldCard \/ SkipCard \/ EndOfPage
  \/ GetAssignees \/ GetAssigneesNone \/ GetAssigneesThrows
  \/ ListEvents \/ ListEventsThrows \/ TimelineFetched
  \/ RemoveLabel \/ RemoveLabelThrows
  \/ AddLabels \/ AddLabelsThrows
  \/ PostComment \/ PostCommentThrows
  \/ Restart

Spec == Init /\ [][Next]_vars

(***************************************************************************)
(* SpecColumn: getIssueNumsFromColumn against an API that answers each     *)
(* request with any page of cards, or throws (lines 74-99)                 *)
(***************************************************************************)
\* What a listCards request may be answered with: up to per_page cards.
ServedPages == SeqsUpTo(CardPool, PerPage)

InitColumn ==
  /\ argTimeline = <<>>
  /\ argIssueNum = 42
  /\ argAssignees = <<"alice">>
  /\ returned = NoResponse
  /\ calls = 0
  /\ pc = "listCards"
  /\ column = <<>>
  /\ labels = [i \in Issues |-> {}]
  /\ labels0 = labels
  /\ pristine = TRUE
  /\ NotStarted

\* Mutant: an empty page does not make the generator return.
ListCardsAny_NoReturn ==
  /\ pc = "listCards"
  /\ IF page < pageLimit
     THEN \E data \in ServedPages :
            /\ results' = data
            /\ requests' = requests + 1
            /\ IF Len(data) > 0
               THEN /\ cardIdx' = 1
                    /\ pc' = "forCards"
                    /\ page' = page
                    /\ UNCHANGED emptyServed
               ELSE /\ pc' = "listCards"
                    /\ page' = page + 1
                    /\ emptyServed' = TRUE
                    /\ UNCHANGED cardIdx
     ELSE /\ pc' = "done"
          /\ UNCHANGED <<page, results, cardIdx, requests, emptyServed>>
  /\ UNCHANGED <<classifyVars, repoVars, historyVars>>
  /\ UNCHANGED <<issueNum, assignees, tlPage, arra, responseObject, pending>>
  /\ UNCHANGED <<removalsRequested, pristine>>

\* The request for the current page returns: a page with cards is
\* iterated, an empty page makes the generator return (finally { page++ }
\* runs all the same). Past page 99 the loop is over.
ListCardsAny ==
  /\ pc = "listCards"
  /\ IF page < pageLimit
     THEN \E data \in ServedPages :
            /\ results' = data
            /\ requests' = requests + 1
            /\ IF Len(data) > 0
               THEN /\ cardIdx' = 1
                    /\ pc' = "forCards"
                    /\ page' = page
                    /\ UNCHANGED emptyServed
               ELSE /\ pc' = "done"
                    /\ page' = page + 1
                    /\ emptyServed' = TRUE
                    /\ UNCHANGED cardIdx
     ELSE /\ pc' = "done"
          /\ UNCHANGED <<page, results, cardIdx, requests, emptyServed>>
  /\ UNCHANGED <<classifyVars, repoVars, historyVars>>
  /\ UNCHANGED <<issueNum, assignees, tlPage, arra, responseObject, pending>>
  /\ UNCHANGED <<removalsRequested, pristine>>

\* The request throws, any number of times: catch { continue },
\* finally { page++ }.
ListCardsAnyThrows ==
  /\ pc = "listCards"
  /\ page < pageLimit
  /\ requests' = requests + 1
  /\ page' = page + 1
  /\ pristine' = FALSE
  /\ UNCHANGED <<classifyVars, repoVars, results, cardIdx, mainVars, historyVars>>
  /\ UNCHANGED <<removalsRequested, emptyServed>>

\* The body of main's loop is over for the yielded number and the
\* generator resumes after its yield.
LoopBodyDone ==
  /\ pc = "getAssignees"
  /\ pc' = "forCards"
  /\ UNCHANGED <<classifyVars, repoVars, generatorVars, historyVars, auditVars>>
  /\ UNCHANGED <<issueNum, assignees, tlPage, arra, responseObject, pending>>

NextColumn ==
  \/ ListCardsAny \/ ListCardsAnyThrows
  \/ YieldCard \/ SkipCard \/ EndOfPage
  \/ LoopBodyDone

SpecColumn == InitColumn /\ [][NextColumn]_vars

\* Every request is awaited and either returns or throws, and the loop
\* body returns control to the generator: a step that can be taken is
\* taken.
FairSpecColumn == SpecColumn /\ WF_vars(NextColumn)

(***************************************************************************)
(* Vocabulary of the claims about isTimelineOutdated                       *)
(***************************************************************************)
Range(arr) == {arr[k] : k \in 1..Len(arr)}
MaxOf(S) == CHOOSE x \in S : \A y \in S : y <= x

QualifyingCrossRef(e, n, who) ==
  e.event = "cross-referenced" /\ findLinkedIssue(e.body) = n /\ e.actor \in Range(who)
QualifyingComment(e, who) ==
  e.event = "commented" /\ e.actor \in Range(who)
QualifyingAssigned(e, who) ==
  e.event = "assigned" /\ e.assignee \in Range(who)

HasCrossRef(tl, n, who) ==
  \E i \in 1..Len(tl) : QualifyingCrossRef(tl[i], n, who)
CommentIdx(tl, who) == {i \in 1..Len(tl) : QualifyingComment(tl[i], who)}
AssignedIdx(tl, who) == {i \in 1..Len(tl) : QualifyingAssigned(tl[i], who)}

\* The timestamp a reverse scan meets first: that of the qualifying event
\* closest to the end of the array.
SelectedAt(tl, idx) ==
  IF idx = {} THEN Null ELSE eventTimestampOf(tl[MaxOf(idx)])
\* The greatest timestamp among the qualifying events.
LatestAt(tl, idx) ==
  IF idx = {} THEN Null ELSE MaxOf({eventTimestampOf(tl[i]) : i \in idx})

Within(t, days) == t # Null /\ Now - t <= days

\* The ordered rule list of the specification, as label names.
RuleList(lastComment, lastAssigned) ==
  IF Within(lastComment, 7) THEN "Status: Updated"
  ELSE IF Within(lastAssigned, 7) THEN ""
  ELSE IF Within(lastComment, 14) \/ Within(lastAssigned, 14) THEN "To Update !"
  ELSE "2 weeks inactive"

IndexPermutations(n) == {p \in [1..n -> 1..n] : \A i, j \in 1..n : p[i] = p[j] => i = j}
Permuted(tl, p) == [i \in 1..Len(tl) |-> tl[p[i]]]

Classified == calls > 0

C4_OrderIndependent ==
  Classified =>
    /\ \A p \in IndexPermutations(Len(argTimeline)) :
         isTimelineOutdated(Permuted(argTimeline, p), argIssueNum, argAssignees) = returned
    /\ ~HasCrossRef(argTimeline, argIssueNum, argAssignees)
         => returned.labels =
              RuleList(LatestAt(argTimeline, CommentIdx(argTimeline, argAssignees)),
                       LatestAt(argTimeline, AssignedIdx(argTimeline, argAssignees)))

(***************************************************************************)
(* C6: the 7-day window is inclusive: a selected assignee comment stamped  *)
(* exactly at the cutoff gives 'Status: Updated'; one stamped before the   *)
(* cutoff does not.                                                        *)
(***************************************************************************)
C6_BoundaryInclusive ==
  LET lastComment == SelectedAt(argTimeline, CommentIdx(argTimeline, argAssignees))
  IN (Classified /\ ~HasCrossRef(argTimeline, argIssueNum, argAssignees) /\ lastComment # Null)
       => /\ Now - lastComment = 7 => returned.labels = "Status: Updated"
          /\ Now - lastComment > 7 => returned.labels # "Status: Updated"

C6_Witness ==
  /\ Classified
  /\ ~HasCrossRef(argTimeline, argIssueNum, argAssignees)
  /\ SelectedAt(argTimeline, CommentIdx(argTimeline, argAssignees)) = Now - 7
  /\ returned.labels = "Status: Updated"

(***************************************************************************)
(* C10: a timeline with no qualifying cross-reference, no comment by an    *)
(* assignee and no assignment of an assignee is labelled '2 weeks          *)
(* inactive', whatever outsiders did recently.                             *)
(***************************************************************************)
C10_NothingQualifiesIsInactive ==
  (/\ Classified
   /\ ~HasCrossRef(argTimeline, argIssueNum, argAssignees)
   /\ CommentIdx(argTimeline, argAssignees) = {}
   /\ AssignedIdx(argTimeline, argAssignees) = {})
    => returned.labels = "2 weeks inactive"

\* A recent comment by, and a recent assignment of, someone who is no
\* assignee of the issue.
C10_Witness ==
  /\ Classified
  /\ Len(argTimeline) = 2
  /\ \E i, j \in 1..2 :
       /\ argTimeline[i].event = "commented"
       /\ argTimeline[i].actor \notin Range(argAssignees)
       /\ eventTimestampOf(argTimeline[i]) = Now - 1
       /\ argTimeline[j].event = "assigned"
       /\ argTimeline[j].assignee \notin Range(argAssignees)
       /\ eventTimestampOf(argTimeline[j]) = Now - 1
  /\ returned.labels = "2 weeks inactive"

(***************************************************************************)
(* Vocabulary of the claims about main                                     *)
(***************************************************************************)
Classification(r) ==
  CASE r.labels = "Status: Updated" -> "Updated"
    [] r.labels = "" -> "RecentlyAssigned"
    [] r.labels = "To Update !" -> "NeedsUpdate"
    [] r.labels = "2 weeks inactive" -> "Inactive"
    [] OTHER -> "Unclassified"
ClassOf(i) == Classification(verdict[i])
Processed(i) == outcome[i] = "processed"
Skipped(i) == outcome[i] = "skipped"
NoCallThrew(i) == failedOn[i] = {}
FetchThrew(i) == failedOn[i] \cap {"get", "listEventsForTimeline"} # {}

(***************************************************************************)
(* C1: an issue classified Updated, by an assignee's recent comment or by  *)
(* an assignee's cross-reference, carries 'Status: Updated' and neither    *)
(* 'To Update !' nor '2 weeks inactive' once main has processed it with    *)
(* every API call succeeding, whatever it carried before.                  *)
(***************************************************************************)
C1_UpdatedIsLabelled ==
  \A i \in Issues :
    (Processed(i) /\ ClassOf(i) = "Updated" /\ NoCallThrew(i))
      => /\ "Status: Updated" \in labels[i]
         /\ "To Update !" \notin labels[i]
         /\ "2 weeks inactive" \notin labels[i]

(***************************************************************************)
(* C5: a failed fetch of the assignees or of the timeline of one issue     *)
(* never aborts the run: main goes on with the remaining issues.           *)
(***************************************************************************)
C5_FetchFailureIsIsolated ==
  (\E i \in Issues : FetchThrew(i)) => pc # "aborted"

(***************************************************************************)
(* C7 as stated: once main is through with an issue, the issue has got     *)
(* exactly one comment if it was classified NeedsUpdate or Inactive and    *)
(* none otherwise.                                                         *)
(***************************************************************************)
C7_CommentIffOutdated ==
  \A i \in Issues :
    (Processed(i) \/ Skipped(i))
      => comments[i] = (IF ClassOf(i) \in {"NeedsUpdate", "Inactive"} THEN 1 ELSE 0)

(***************************************************************************)
(* C7 amended: main requests a comment exactly for the issues classified   *)
(* NeedsUpdate or Inactive, once; the issue gets that one comment when the *)
(* request succeeds and none when it throws. Issues classified Updated or  *)
(* RecentlyAssigned, and skipped issues, never get a comment.              *)
(***************************************************************************)
C7_CommentRequestedIffOutdated ==
  \A i \in Issues :
    /\ comments[i] <= 1
    /\ comments[i] = 1 => ClassOf(i) \in {"NeedsUpdate", "Inactive"}
    /\ "createComment" \in requested[i] => ClassOf(i) \in {"NeedsUpdate", "Inactive"}
    /\ (Processed(i) \/ Skipped(i))
         => /\ "createComment" \in requested[i]
                <=> ClassOf(i) \in {"NeedsUpdate", "Inactive"}
            /\ comments[i] = 1
                <=> /\ ClassOf(i) \in {"NeedsUpdate", "Inactive"}
                    /\ "createComment" \notin failedOn[i]

\* One issue got its comment, another was classified Updated and got none.
C7_Witness ==
  \E i, j \in Issues :
    /\ Processed(i) /\ ClassOf(i) = "NeedsUpdate" /\ comments[i] = 1
    /\ Processed(j) /\ ClassOf(j) = "Updated" /\ comments[j] = 0
    /\ "addLabels" \in requested[j]

(***************************************************************************)
(* C8: for an issue without assignees main requests no timeline, runs no   *)
(* classification, removes and adds no label and posts no comment; the     *)
(* labels of the issue are those it had, and the run goes on.              *)
(***************************************************************************)
C8_NoAssigneeIsSkipped ==
  \A i \in Issues :
    Skipped(i)
      => /\ requested[i] = {"get"}
         /\ verdict[i] = NoResponse
         /\ labels[i] = labels0[i]
         /\ comments[i] = 0
         /\ issueNum = i => pc \in {"forCards", "listCards", "done"}

\* A labelled issue was skipped and the issue after it was processed.
C8_Witness ==
  \E i, j \in Issues :
    /\ Skipped(i) /\ labels[i] # {}
    /\ Processed(j) /\ labels[j] # labels0[j]

C12_ResultFlagMatchesLabel ==
  Classified
    => /\ returned.result = TRUE <=> returned.labels \in {"To Update !", "2 weeks inactive"}
       /\ returned.result = FALSE <=> returned.labels \in {"Status: Updated", ""}
       /\ Branch(returned) \in {"updated", "toUpdate", "inactive", "recentlyAssigned"}

(***************************************************************************)
(* C13: when a page request of getIssueNumsFromColumn or of getTimeline    *)
(* throws, the function stays in its loop and requests the same page       *)
(* again: the page number is not advanced and the run is not aborted.      *)
(***************************************************************************)
C13_FailedPageIsRetried ==
  [][(failures' = failures + 1 /\ pc \in {"listCards", "getTimeline"})
       => /\ pc' = pc
          /\ page' = page
          /\ tlPage' = tlPage]_vars

(***************************************************************************)
(* C14: the label and comment requests are best effort. Whichever of them  *)
(* throw, an issue main is through with has had every removal of its       *)
(* branch requested, its addLabels and its comment requested when the      *)
(* branch has them, and main has gone on to the next issue; the run is     *)
(* aborted only where a fetch of assignees or timeline threw.              *)
(***************************************************************************)
C14_MutationsAreBestEffort ==
  /\ \A i \in Issues :
       Processed(i)
         => /\ removalsRequested[i] = Range(LabelsToRemove(Branch(verdict[i])))
            /\ "addLabels" \in requested[i] <=> BranchAddsLabel(Branch(verdict[i]))
            /\ "createComment" \in requested[i] <=> BranchPostsComment(Branch(verdict[i]))
  /\ \A i \in Issues :
       failedOn[i] \cap {"removeLabel", "addLabels", "createComment"} # {}
         => ~(pc = "aborted" /\ issueNum = i)
  /\ pc = "aborted" => FetchThrew(issueNum)

\* The first removal and addLabels threw for the first issue of the column:
\* its second removal was requested, its comment was posted and the second
\* issue was processed after it.
C14_Witness ==
  \E i, j \in Issues :
    /\ column = <<IssueCard(i), IssueCard(j)>>
    /\ Processed(i)
    /\ failedOn[i] = {"removeLabel", "addLabels"}
    /\ removalsRequested[i] = {"Status: Updated", "2 weeks inactive"}
    /\ labels0[i] = {"Status: Updated", "2 weeks inactive"}
    /\ labels[i] = {"Status: Updated"}
    /\ comments[i] = 1
    /\ Processed(j)
    /\ labels[j] # labels0[j]

(***************************************************************************)
(* C15: when the first run found at most one of the three status labels on *)
(* each issue and no API call has thrown since, every issue carries at     *)
(* most one of the three at the end of each run.                           *)
(***************************************************************************)
C15_AtMostOneStatusLabel ==
  (pristine /\ pc = "done")
    => \A i \in Issues : Cardinality(labels[i] \cap StatusLabels) <= 1

\* A run without failures has moved one issue from '2 weeks inactive' to
\* 'Status: Updated' and another from 'Status: Updated' to 'To Update !'.
C15_Witness ==
  /\ pristine
  /\ pc = "done"
  /\ \E i, j \in Issues :
       /\ labels0[i] = {"2 weeks inactive"} /\ labels[i] = {"Status: Updated"}
       /\ labels0[j] = {"Status: Updated"} /\ labels[j] = {"To Update !"}

(***************************************************************************)
(* C16: getIssueNumsFromColumn terminates whatever the API answers, even   *)
(* when every request throws: it makes at most 99 page requests, it is     *)
(* over as soon as a request is answered with an empty page, and every     *)
(* number it yields is the last segment of the content_url of a card that  *)
(* has one.                                                                *)
(***************************************************************************)
C16_ColumnTerminates ==
  /\ [](requests <= 99)
  /\ [](emptyServed => pc = "done")
  /\ [](pc = "getAssignees"
         => /\ "content_url" \in DOMAIN results[cardIdx - 1]
            /\ issueNum = issueNumOf(results[cardIdx - 1]))
  /\ <>(pc = "done")

\* The generator is over after 99 requests none of which was answered
\* with an empty page, and has yielded a number.
C16_Witness ==
  /\ pc = "done"
  /\ requests = 99
  /\ ~emptyServed
  /\ issueNum \in Issues

====
